---------------------------- MODULE Spec2Model ----------------------------
(***************************************************************************)
(* The prediction pipeline of Project Apex: the three predictor models,    *)
(* the model manager, the prediction store and its reconciliation.         *)
(*                                                                         *)
(* Units.  Probabilities and confidences are integers in thousandths       *)
(* (0.5 is 500, 0.8 is 800).  Points (scores, spreads, totals) are         *)
(* integers in tenths of a point (220.0 is 2200, a spread of 7 is 70).     *)
(* The winner row's actual_value is the plain flag 0 or 1.                 *)
(***************************************************************************)
EXTENDS Integers, Sequences, FiniteSets, TLC

VARIABLES
    games,        \* the games table: game id -> row
    predictions,  \* the predictions table: a set of rows
    mgr,          \* the MLModelManager of the running process: its three predictors
    artifacts,    \* ml_models/saved_models: artifact name -> saved predictor or None
    sessions,     \* the open store_predictions transactions, per client
    committed,    \* per prediction key, the values of the last committed store call
    batch,        \* the running generate_predictions_for_upcoming_games call, or None
    last          \* the last operation performed and what it returned

vars == <<games, predictions, mgr, artifacts, sessions, committed, batch, last>>

\* Python's None and SQL's NULL; a value that may be absent is <<v>> when present
None == <<>>

Some(v) == <<v>>

Get(x) == x[1]

Abs(x) == IF x < 0 THEN -x ELSE x
Min(a, b) == IF a < b THEN a ELSE b
Max(a, b) == IF a > b THEN a ELSE b

Kinds == {"outcome", "spread", "total"}

(***************************************************************************)
(* Columns.                                                                *)
(***************************************************************************)
OutcomeFeatureCols ==
    {"home_avg_scored", "home_avg_allowed", "away_avg_scored", "away_avg_allowed",
     "home_point_diff", "away_point_diff", "point_diff_advantage",
     "home_win_pct", "away_win_pct", "win_pct_advantage",
     "home_court_advantage", "home_recent_form", "away_recent_form", "form_advantage",
     "h2h_win_pct", "home_consistency", "away_consistency"}

SpreadFeatureCols ==
    {"home_avg_scored", "home_avg_allowed", "away_avg_scored", "away_avg_allowed",
     "point_diff_advantage", "win_pct_advantage", "home_court_advantage",
     "form_advantage", "h2h_avg_margin", "projected_spread"}

TotalFeatureCols ==
    {"home_avg_scored", "home_avg_allowed", "away_avg_scored", "away_avg_allowed",
     "projected_home_score", "projected_away_score", "projected_total",
     "h2h_avg_total", "home_consistency", "away_consistency"}

feature_cols(kind) ==
    CASE kind = "outcome" -> OutcomeFeatureCols
      [] kind = "spread"  -> SpreadFeatureCols
      [] kind = "total"   -> TotalFeatureCols

\* the label column each train reads
LabelCol(kind) ==
    CASE kind = "outcome" -> "home_win"
      [] kind = "spread"  -> "point_spread"
      [] kind = "total"   -> "total_points"

\* the keys of the dictionary create_game_features returns
FeatureVectorCols ==
    {"home_avg_scored", "home_avg_allowed", "away_avg_scored", "away_avg_allowed",
     "home_point_diff", "away_point_diff", "point_diff_advantage",
     "home_win_pct", "away_win_pct", "win_pct_advantage",
     "home_court_advantage", "home_recent_form", "away_recent_form", "form_advantage",
     "h2h_win_pct", "h2h_avg_total", "h2h_avg_margin",
     "home_consistency", "away_consistency",
     "projected_home_score", "projected_away_score", "projected_total",
     "projected_spread"}

\* the columns of a row of prepare_training_data
TrainingCols ==
    FeatureVectorCols \cup
    {"home_score", "away_score", "total_points", "home_win", "point_spread",
     "game_id", "game_date"}

(***************************************************************************)
(* A DataFrame is [rows, cols]: rows is the sequence of its rows (the      *)
(* labels of each), cols the set of its column names.                      *)
(***************************************************************************)
EmptyFrame == [rows |-> <<>>, cols |-> {}]

\* DataFrame.empty: some axis has length 0
IsEmpty(df) == df.rows = <<>> \/ df.cols = {}

(***************************************************************************)
(* Predictor models.                                                       *)
(***************************************************************************)
\* __init__ of the three predictor classes
NewPredictor ==
    [model |-> None, scaler |-> None, feature_columns |-> None, is_trained |-> FALSE]

\* prepare_features: the declared columns that the frame has; records them
prepare_features(kind, self, df) ==
    [self EXCEPT !.feature_columns = Some(feature_cols(kind) \cap df.cols)]

\* train_test_split(test_size=0.2): the size of the held-out partition
NTest(n) == (n + 4) \div 5

\* the held-out partitions tried for a frame of n rows: NTest(n) rows in a
\* row, starting at any row and wrapping around
TestSets(n) ==
    IF n = 0 THEN {{}}
    ELSE {{((i + j) % n) + 1 : j \in 0..(NTest(n) - 1)} : i \in 0..(n - 1)}

\* the labels of the train partition, in row order
RECURSIVE TrainRows(_, _, _)
TrainRows(rows, test, i) ==
    IF i > Len(rows) THEN <<>>
    ELSE (IF i \in test THEN <<>> ELSE <<rows[i]>>) \o TrainRows(rows, test, i + 1)

ClassCount(y, c) == Cardinality({i \in 1..Len(y) : y[i].home_win = c})

\* cross_val_score(cv=5) on a classifier: StratifiedKFold refuses when every
\* class of y_train has fewer than 5 members
CrossValRaises(y) == \A c \in {0, 1} : ClassCount(y, c) < 5

\* what a fitted scaler or estimator keeps of the partition it was fitted on
FitOn(y) == [n |-> Len(y), wins |-> ClassCount(y, 1)]

\* a row's label in the unit of the estimator's answer: thousandths for the
\* class, tenths of a point for the spread and the total
Label(kind, row) ==
    CASE kind = "outcome" -> 1000 * row.home_win
      [] kind = "spread"  -> 10 * row.point_spread
      [] kind = "total"   -> 10 * row.total_points

\* the least and the greatest label of the partition an estimator was fitted on
LabelRange(kind, y) ==
    LET vals == {Label(kind, y[i]) : i \in 1..Len(y)}
    IN  [lo |-> CHOOSE v \in vals : \A w \in vals : v <= w,
         hi |-> CHOOSE v \in vals : \A w \in vals : v >= w]

\* the neutral fallback dictionaries of the three predict methods
Fallback(kind) ==
    CASE kind = "outcome" -> [home_win_probability |-> 500, confidence |-> 0]
      [] kind = "spread"  -> [predicted_spread |-> 0, confidence |-> 0]
      [] kind = "total"   -> [predicted_total |-> 2200, confidence |-> 0]

\* train with the label column never looked for
train_unchecked_label(kind, self, training_data, test) ==
    IF IsEmpty(training_data)
    THEN [self |-> self, ret |-> FALSE]
    ELSE
      LET s1 == prepare_features(kind, self, training_data)
          n  == Len(training_data.rows)
          y_train == TrainRows(training_data.rows, test, 1)
          s3 == [s1 EXCEPT
                   !.scaler = [cols |-> Get(s1.feature_columns), fit |-> FitOn(y_train)],
                   !.model = [cols |-> Get(s1.feature_columns), fit |-> FitOn(y_train),
                              classes |-> {y_train[i].home_win : i \in 1..Len(y_train)},
                              targets |-> LabelRange(kind, y_train)]]
      IN  IF Get(s1.feature_columns) = {} THEN [self |-> s1, ret |-> FALSE]
          ELSE IF n - NTest(n) = 0 THEN [self |-> s1, ret |-> FALSE]
          ELSE IF kind = "outcome" /\ CrossValRaises(y_train)
               THEN [self |-> s3, ret |-> FALSE]
          ELSE [self |-> [s3 EXCEPT !.is_trained = TRUE], ret |-> TRUE]

\* train of the three predictor classes; test is the held-out partition the
\* shuffle picks.  Returns the predictor after the call and the value returned.
train(kind, self, training_data, test) ==
    IF IsEmpty(training_data) \/ LabelCol(kind) \notin training_data.cols
    THEN [self |-> self, ret |-> FALSE]
    ELSE
      LET s1 == prepare_features(kind, self, training_data)
          n  == Len(training_data.rows)
          y_train == TrainRows(training_data.rows, test, 1)
          s2 == [s1 EXCEPT !.scaler = [cols |-> Get(s1.feature_columns), fit |-> FitOn(y_train)]]
          s3 == [s2 EXCEPT !.model =
                    [cols |-> Get(s1.feature_columns), fit |-> FitOn(y_train),
                     classes |-> {y_train[i].home_win : i \in 1..Len(y_train)},
                     targets |-> LabelRange(kind, y_train)]]
      IN  IF Get(s1.feature_columns) = {} THEN [self |-> s1, ret |-> FALSE]
          ELSE IF n - NTest(n) = 0 THEN [self |-> s1, ret |-> FALSE]
          ELSE IF kind = "outcome" /\ CrossValRaises(y_train)
               THEN [self |-> s3, ret |-> FALSE]
          ELSE [self |-> [s3 EXCEPT !.is_trained = TRUE], ret |-> TRUE]

\* the dictionary with the spread confidence left uncapped
PredictedDict_uncapped(kind, self, out) ==
    CASE kind = "outcome" ->
           LET home_win_prob == IF Cardinality(self.model.classes) > 1 THEN out ELSE 500
           IN  [home_win_probability |-> home_win_prob,
                away_win_probability |-> 1000 - home_win_prob,
                confidence |-> Abs(home_win_prob - 500) * 2]
      [] kind = "spread" ->
           [predicted_spread |-> out, confidence |-> Abs(out) * 5]
      [] kind = "total" ->
           [predicted_total |-> out,
            confidence |-> Max(100, Min(800, 1000 - Abs(out - 2200)))]

\* the dictionary predict builds from the estimator's raw output
PredictedDict(kind, self, out) ==
    CASE kind = "outcome" ->
           LET home_win_prob == IF Cardinality(self.model.classes) > 1 THEN out ELSE 500
           IN  [home_win_probability |-> home_win_prob,
                away_win_probability |-> 1000 - home_win_prob,
                confidence |-> Abs(home_win_prob - 500) * 2]
      [] kind = "spread" ->
           [predicted_spread |-> out, confidence |-> Min(800, Abs(out) * 5)]
      [] kind = "total" ->
           [predicted_total |-> out,
            confidence |-> Max(100, Min(800, 1000 - Abs(out - 2200)))]

\* predict guarded by the estimator alone, not by is_trained
predict_model_only(kind, self, features, out) ==
    IF self.model = None
    THEN [self |-> self, ret |-> Fallback(kind)]
    ELSE
      LET s1 == prepare_features(kind, self, features)
      IN  IF Get(s1.feature_columns) # self.scaler.cols
          THEN [self |-> s1, ret |-> Fallback(kind)]
          ELSE [self |-> s1, ret |-> PredictedDict(kind, self, out)]

\* predict of the three predictor classes; out is what the fitted estimator
\* answers for the feature row
predict(kind, self, features, out) ==
    IF ~self.is_trained \/ self.model = None
    THEN [self |-> self, ret |-> Fallback(kind)]
    ELSE
      LET s1 == prepare_features(kind, self, features)
      IN  IF Get(s1.feature_columns) # self.scaler.cols
          THEN [self |-> s1, ret |-> Fallback(kind)]
          ELSE [self |-> s1, ret |-> PredictedDict(kind, self, out)]

(***************************************************************************)
(* The games table and the training set assembler.                         *)
(***************************************************************************)
NumGames == 8

GameIds == 1..NumGames

Teams == {"A", "B"}

\* a completed game with both scores (whole points)
Completed(home, away, date, hs, as) ==
    [home_team_id |-> home, away_team_id |-> away, game_date |-> date,
     status |-> "completed", home_score |-> Some(hs), away_score |-> Some(as)]

\* a scheduled game: the scores are NULL
Scheduled(home, away, date) ==
    [home_team_id |-> home, away_team_id |-> away, game_date |-> date,
     status |-> "scheduled", home_score |-> None, away_score |-> None]

\* the rows the three feature queries and the training query select
Qualifies(g) ==
    g.status = "completed" /\ g.home_score # None /\ g.away_score # None

\* the sequences of the ids in S that ORDER BY game_date can return
RECURSIVE DateOrders(_, _)
DateOrders(gs, S) ==
    IF S = {} THEN {<<>>}
    ELSE UNION {{<<g>> \o t : t \in DateOrders(gs, S \ {g})} :
                  g \in {x \in S : \A y \in S : gs[x].game_date <= gs[y].game_date}}

\* the label columns prepare_training_data attaches to the row of game g
TrainingRow(gs, g) ==
    LET home_score == Get(gs[g].home_score)
        away_score == Get(gs[g].away_score)
    IN  [game_id      |-> g,
         game_date    |-> gs[g].game_date,
         home_score   |-> home_score,
         away_score   |-> away_score,
         total_points |-> home_score + away_score,
         home_win     |-> IF home_score > away_score THEN 1 ELSE 0,
         point_spread |-> home_score - away_score]

\* the games of the training query with the date bounds exclusive
TrainingGames_exclusive(gs, start_date, end_date) ==
    {g \in DOMAIN gs :
        /\ Qualifies(gs[g])
        /\ (start_date # None => gs[g].game_date > Get(start_date))
        /\ (end_date # None => gs[g].game_date < Get(end_date))}

\* the games of the training query; a bound that is None is not applied
TrainingGames(gs, start_date, end_date) ==
    {g \in DOMAIN gs :
        /\ Qualifies(gs[g])
        /\ (start_date # None => gs[g].game_date >= Get(start_date))
        /\ (end_date # None => gs[g].game_date <= Get(end_date))}

\* prepare_training_data: order is the order the query returned the rows in;
\* a failing store (db_ok false) is caught and gives the empty frame
prepare_training_data(gs, order, db_ok) ==
    IF ~db_ok \/ order = <<>> THEN EmptyFrame
    ELSE [rows |-> [i \in 1..Len(order) |-> TrainingRow(gs, order[i])],
          cols |-> TrainingCols]

(***************************************************************************)
(* The feature aggregators of FeatureEngineer.  Averages, fractions and    *)
(* the consistency score are in thousandths, rounded down.                 *)
(***************************************************************************)
\* get_team_stats(team_id, games_back = 10)
GamesBack == 10

\* get_head_to_head_stats(team1_id, team2_id, games_back = 5)
H2HGamesBack == 5

\* recent_games = df.head(5)
RecentGames == 5

\* the largest standard deviation of scores told apart, hundredths of a point
MaxStd == 1500

RECURSIVE Sum(_)
Sum(seq) == IF seq = <<>> THEN 0 ELSE seq[1] + Sum(Tail(seq))

\* np.mean
Mean(seq) == (1000 * Sum(seq)) \div Len(seq)

\* the greatest r in lo..hi with r * r <= v, by bisection
RECURSIVE Root(_, _, _)
Root(v, lo, hi) ==
    IF lo = hi THEN lo
    ELSE IF ((lo + hi + 1) \div 2) * ((lo + hi + 1) \div 2) <= v
         THEN Root(v, (lo + hi + 1) \div 2, hi)
         ELSE Root(v, lo, ((lo + hi + 1) \div 2) - 1)

\* np.std: the population standard deviation, hundredths of a point
Std(seq) ==
    LET n == Len(seq)
        squares == [i \in 1..n |-> seq[i] * seq[i]]
        spread2 == ((n * Sum(squares) - Sum(seq) * Sum(seq)) * 10000) \div (n * n)
    IN  CHOOSE r \in {Root(v, 0, MaxStd) : v \in {spread2}} : TRUE

Reverse(seq) == [i \in 1..Len(seq) |-> seq[Len(seq) + 1 - i]]

\* the results ORDER BY game_date DESC LIMIT limit can give for the games in S:
\* rows of one game_date come in any order
RecentFirst(gs, S, limit) ==
    {SubSeq(Reverse(o), 1, Min(limit, Len(o))) : o \in DateOrders(gs, S)}

\* the games of the get_team_stats query
TeamGames(gs, team_id) ==
    {g \in DOMAIN gs :
        /\ (gs[g].home_team_id = team_id \/ gs[g].away_team_id = team_id)
        /\ Qualifies(gs[g])}

\* the games of the get_head_to_head_stats query
SharedGames(gs, team1_id, team2_id) ==
    {g \in DOMAIN gs :
        /\ \/ (gs[g].home_team_id = team1_id /\ gs[g].away_team_id = team2_id)
           \/ (gs[g].home_team_id = team2_id /\ gs[g].away_team_id = team1_id)
        /\ Qualifies(gs[g])}

\* the venue column of the get_team_stats query
Venue(g, team_id) == IF g.home_team_id = team_id THEN "home" ELSE "away"

\* whether the team of the given venue won the game
VenueWon(g, venue) ==
    \/ venue = "home" /\ Get(g.home_score) > Get(g.away_score)
    \/ venue = "away" /\ Get(g.away_score) > Get(g.home_score)

\* the win fraction with no default for a venue without games
calculate_win_pct_unguarded(rows, venue) ==
    IF rows = <<>> THEN 0
    ELSE (1000 * Cardinality({i \in 1..Len(rows) : VenueWon(rows[i], venue)}))
            \div Len(rows)

\* _calculate_win_pct over the rows of one venue
calculate_win_pct(rows, venue) ==
    IF rows = <<>> THEN 500
    ELSE (1000 * Cardinality({i \in 1..Len(rows) : VenueWon(rows[i], venue)}))
            \div Len(rows)

\* the default profile with the win fractions at zero
get_default_stats_zero ==
    [avg_points_scored |-> 110000, avg_points_allowed |-> 110000,
     avg_point_differential |-> 0, win_percentage |-> 0,
     home_win_pct |-> 0, away_win_pct |-> 0,
     recent_form |-> 0, scoring_consistency |-> 500]

\* _get_default_stats
get_default_stats ==
    [avg_points_scored |-> 110000, avg_points_allowed |-> 110000,
     avg_point_differential |-> 0, win_percentage |-> 500,
     home_win_pct |-> 500, away_win_pct |-> 500,
     recent_form |-> 500, scoring_consistency |-> 500]

\* the rows of the team's games at one venue, in order
RECURSIVE SelectRows(_, _, _)
SelectRows(rows, team_id, venue) ==
    IF rows = <<>> THEN <<>>
    ELSE (IF Venue(rows[1], team_id) = venue THEN <<rows[1]>> ELSE <<>>)
            \o SelectRows(Tail(rows), team_id, venue)

\* get_team_stats: df is the result of the query (game ids, most recent
\* first); a failing store (db_ok false) is caught and gives the defaults
get_team_stats(gs, team_id, df, db_ok) ==
    IF ~db_ok \/ df = <<>> THEN get_default_stats
    ELSE
      LET rows == [i \in 1..Len(df) |-> gs[df[i]]]
          team_scores == [i \in 1..Len(rows) |->
                             IF Venue(rows[i], team_id) = "home"
                             THEN Get(rows[i].home_score) ELSE Get(rows[i].away_score)]
          opponent_scores == [i \in 1..Len(rows) |->
                             IF Venue(rows[i], team_id) = "home"
                             THEN Get(rows[i].away_score) ELSE Get(rows[i].home_score)]
          wins == Cardinality({i \in 1..Len(rows) : team_scores[i] > opponent_scores[i]})
          home_games == SelectRows(rows, team_id, "home")
          away_games == SelectRows(rows, team_id, "away")
          recent_games == SubSeq(rows, 1, Min(RecentGames, Len(rows)))
          recent_wins == Cardinality({i \in 1..Len(recent_games) :
                            VenueWon(recent_games[i], Venue(recent_games[i], team_id))})
      IN  [avg_points_scored |-> Mean(team_scores),
           avg_points_allowed |-> Mean(opponent_scores),
           avg_point_differential |-> Mean(team_scores) - Mean(opponent_scores),
           win_percentage |-> (1000 * wins) \div Len(rows),
           home_win_pct |-> calculate_win_pct(home_games, "home"),
           away_win_pct |-> calculate_win_pct(away_games, "away"),
           recent_form |-> (1000 * recent_wins) \div Len(recent_games),
           scoring_consistency |-> 100000 \div (Std(team_scores) + 100)]

\* the head-to-head answer with the win fraction at zero
H2HDefault_zero == [h2h_win_pct |-> 0, avg_total_points |-> 220000, avg_margin |-> 0]

\* the answer of get_head_to_head_stats when the teams share no game
H2HDefault == [h2h_win_pct |-> 500, avg_total_points |-> 220000, avg_margin |-> 0]

\* get_head_to_head_stats: df is the result of the query
get_head_to_head_stats(gs, team1_id, team2_id, df, db_ok) ==
    IF ~db_ok \/ df = <<>> THEN H2HDefault
    ELSE
      LET rows == [i \in 1..Len(df) |-> gs[df[i]]]
          team1_wins == Cardinality({i \in 1..Len(rows) :
                           VenueWon(rows[i], Venue(rows[i], team1_id))})
          margins == [i \in 1..Len(rows) |->
                         IF rows[i].home_team_id = team1_id
                         THEN Get(rows[i].home_score) - Get(rows[i].away_score)
                         ELSE Get(rows[i].away_score) - Get(rows[i].home_score)]
          total_points == [i \in 1..Len(rows) |->
                              Get(rows[i].home_score) + Get(rows[i].away_score)]
      IN  [h2h_win_pct |-> (1000 * team1_wins) \div Len(rows),
           avg_total_points |-> Mean(total_points),
           avg_margin |-> Mean(margins)]

\* create_game_features, from the answers of the three aggregators
create_game_features(home_stats, away_stats, h2h_stats) ==
    LET projected_home_score ==
            (home_stats.avg_points_scored + away_stats.avg_points_allowed) \div 2
        projected_away_score ==
            (away_stats.avg_points_scored + home_stats.avg_points_allowed) \div 2
    IN  [home_avg_scored |-> home_stats.avg_points_scored,
         home_avg_allowed |-> home_stats.avg_points_allowed,
         away_avg_scored |-> away_stats.avg_points_scored,
         away_avg_allowed |-> away_stats.avg_points_allowed,
         home_point_diff |-> home_stats.avg_point_differential,
         away_point_diff |-> away_stats.avg_point_differential,
         point_diff_advantage |-> home_stats.avg_point_differential
                                     - away_stats.avg_point_differential,
         home_win_pct |-> home_stats.win_percentage,
         away_win_pct |-> away_stats.win_percentage,
         win_pct_advantage |-> home_stats.win_percentage - away_stats.win_percentage,
         home_court_advantage |-> home_stats.home_win_pct - away_stats.away_win_pct,
         home_recent_form |-> home_stats.recent_form,
         away_recent_form |-> away_stats.recent_form,
         form_advantage |-> home_stats.recent_form - away_stats.recent_form,
         h2h_win_pct |-> h2h_stats.h2h_win_pct,
         h2h_avg_total |-> h2h_stats.avg_total_points,
         h2h_avg_margin |-> h2h_stats.avg_margin,
         home_consistency |-> home_stats.scoring_consistency,
         away_consistency |-> away_stats.scoring_consistency,
         projected_home_score |-> projected_home_score,
         projected_away_score |-> projected_away_score,
         projected_total |-> projected_home_score + projected_away_score,
         projected_spread |-> projected_home_score - projected_away_score]

(***************************************************************************)
(* The model manager.                                                      *)
(***************************************************************************)
\* MLModelManager.__init__: three fresh predictors; nothing is loaded
NewManager == [k \in Kinds |-> NewPredictor]

ArtifactName(kind) ==
    CASE kind = "outcome" -> "game_outcome_model"
      [] kind = "spread"  -> "spread_model"
      [] kind = "total"   -> "total_points_model"

ArtifactNames == {ArtifactName(k) : k \in Kinds}

\* save_model: joblib.dump of the predictor; a failing write is logged only
save_model(arts, model, model_name, write_ok) ==
    IF write_ok THEN [arts EXCEPT ![model_name] = model] ELSE arts

\* load_model: the saved predictor, or None when the file is missing or unreadable
load_model(arts, model_name, read_ok) ==
    IF read_ok /\ arts[model_name] # None THEN arts[model_name] ELSE None

\* train_all_models giving up at the first model that fails to train
train_all_models_stops(self, arts, training_data, test, write_ok) ==
    IF IsEmpty(training_data)
    THEN [self |-> self, arts |-> arts, attempted |-> {},
          success |-> [k \in Kinds |-> FALSE], written |-> {}, ret |-> FALSE]
    ELSE
      LET outcome == train("outcome", self["outcome"], training_data, test)
          spread  == IF outcome.ret
                     THEN train("spread", self["spread"], training_data, test)
                     ELSE [self |-> self["spread"], ret |-> FALSE]
          total   == IF spread.ret
                     THEN train("total", self["total"], training_data, test)
                     ELSE [self |-> self["total"], ret |-> FALSE]
          a1 == IF outcome.ret
                THEN save_model(arts, outcome.self, "game_outcome_model", write_ok["outcome"])
                ELSE arts
          a2 == IF spread.ret
                THEN save_model(a1, spread.self, "spread_model", write_ok["spread"])
                ELSE a1
          a3 == IF total.ret
                THEN save_model(a2, total.self, "total_points_model", write_ok["total"])
                ELSE a2
          success == [outcome |-> outcome.ret, spread |-> spread.ret, total |-> total.ret]
      IN  [self |-> [outcome |-> outcome.self, spread |-> spread.self, total |-> total.self],
           arts |-> a3,
           attempted |-> {"outcome"} \cup (IF outcome.ret THEN {"spread"} ELSE {})
                            \cup (IF spread.ret THEN {"total"} ELSE {}),
           success |-> success,
           written |-> {k \in Kinds : success[k] /\ write_ok[k]},
           ret |-> Cardinality({k \in Kinds : success[k]}) > 0]

\* train_all_models saving every model, trained or not
train_all_models_saves_all(self, arts, training_data, test, write_ok) ==
    IF IsEmpty(training_data)
    THEN [self |-> self, arts |-> arts, attempted |-> {},
          success |-> [k \in Kinds |-> FALSE], written |-> {}, ret |-> FALSE]
    ELSE
      LET outcome == train("outcome", self["outcome"], training_data, test)
          spread  == train("spread", self["spread"], training_data, test)
          total   == train("total", self["total"], training_data, test)
          a1 == save_model(arts, outcome.self, "game_outcome_model", write_ok["outcome"])
          a2 == save_model(a1, spread.self, "spread_model", write_ok["spread"])
          a3 == save_model(a2, total.self, "total_points_model", write_ok["total"])
          success == [outcome |-> outcome.ret, spread |-> spread.ret, total |-> total.ret]
      IN  [self |-> [outcome |-> outcome.self, spread |-> spread.self, total |-> total.self],
           arts |-> a3,
           attempted |-> Kinds,
           success |-> success,
           written |-> {k \in Kinds : write_ok[k]},
           ret |-> Cardinality({k \in Kinds : success[k]}) > 0]

\* train_all_models that reports success only for models whose artifact was written
train_all_models_needs_artifact(self, arts, training_data, test, write_ok) ==
    IF IsEmpty(training_data)
    THEN [self |-> self, arts |-> arts, attempted |-> {},
          success |-> [k \in Kinds |-> FALSE], written |-> {}, ret |-> FALSE]
    ELSE
      LET outcome == train("outcome", self["outcome"], training_data, test)
          spread  == train("spread", self["spread"], training_data, test)
          total   == train("total", self["total"], training_data, test)
          a1 == IF outcome.ret
                THEN save_model(arts, outcome.self, "game_outcome_model", write_ok["outcome"])
                ELSE arts
          a2 == IF spread.ret
                THEN save_model(a1, spread.self, "spread_model", write_ok["spread"])
                ELSE a1
          a3 == IF total.ret
                THEN save_model(a2, total.self, "total_points_model", write_ok["total"])
                ELSE a2
          success == [outcome |-> outcome.ret, spread |-> spread.ret, total |-> total.ret]
      IN  [self |-> [outcome |-> outcome.self, spread |-> spread.self, total |-> total.self],
           arts |-> a3,
           attempted |-> Kinds,
           success |-> success,
           written |-> {k \in Kinds : success[k] /\ write_ok[k]},
           ret |-> Cardinality({k \in Kinds : success[k] /\ write_ok[k]}) > 0]

\* train_all_models: returns the manager and the artifacts after the call,
\* each model's train result, the models train was called on, the artifacts
\* written and the value returned
train_all_models(self, arts, training_data, test, write_ok) ==
    IF IsEmpty(training_data)
    THEN [self |-> self, arts |-> arts, attempted |-> {},
          success |-> [k \in Kinds |-> FALSE], written |-> {}, ret |-> FALSE]
    ELSE
      LET outcome == train("outcome", self["outcome"], training_data, test)
          spread  == train("spread", self["spread"], training_data, test)
          total   == train("total", self["total"], training_data, test)
          a1 == IF outcome.ret
                THEN save_model(arts, outcome.self, "game_outcome_model", write_ok["outcome"])
                ELSE arts
          a2 == IF spread.ret
                THEN save_model(a1, spread.self, "spread_model", write_ok["spread"])
                ELSE a1
          a3 == IF total.ret
                THEN save_model(a2, total.self, "total_points_model", write_ok["total"])
                ELSE a2
          success == [outcome |-> outcome.ret, spread |-> spread.ret, total |-> total.ret]
      IN  [self |-> [outcome |-> outcome.self, spread |-> spread.self, total |-> total.self],
           arts |-> a3,
           attempted |-> Kinds,
           success |-> success,
           written |-> {k \in Kinds : success[k] /\ write_ok[k]},
           ret |-> Cardinality({k \in Kinds : success[k]}) > 0]

\* the neutral bundle of predict_game's except branch
NeutralBundle ==
    [home_win_probability |-> 500,
     away_win_probability |-> 500,
     predicted_spread |-> 0,
     predicted_total |-> 2200,
     confidence_scores |-> [outcome |-> 0, spread |-> 0, total |-> 0]]

\* the frame predict_game builds from create_game_features: one row, every feature
FeatureFrame == [rows |-> <<[game_id |-> 0]>>, cols |-> FeatureVectorCols]

\* the three predict calls of predict_game
GamePreds(self, features, outs) ==
    [k \in Kinds |-> predict(k, self[k], features, outs[k])]

\* the merge of predict_game's try block: raised when a key is missing
MergePredictions(outcome_pred, spread_pred, total_pred) ==
    IF "away_win_probability" \notin DOMAIN outcome_pred
    THEN [raised |-> TRUE, value |-> None]
    ELSE [raised |-> FALSE,
          value |->
            [home_win_probability |-> outcome_pred.home_win_probability,
             away_win_probability |-> outcome_pred.away_win_probability,
             predicted_spread |-> spread_pred.predicted_spread,
             predicted_total |-> total_pred.predicted_total,
             confidence_scores |->
                [outcome |-> outcome_pred.confidence,
                 spread |-> spread_pred.confidence,
                 total |-> total_pred.confidence],
             model_name |-> "Project Apex ML",
             prediction_time |-> "now"]]

\* predict_game without its try/except: a failing merge reaches the caller
predict_game_uncaught(self, features, outs) ==
    LET p == GamePreds(self, features, outs)
        m == MergePredictions(p["outcome"].ret, p["spread"].ret, p["total"].ret)
    IN  [self |-> [k \in Kinds |-> p[k].self],
         preds |-> [k \in Kinds |-> p[k].ret],
         raised |-> m.raised,
         value |-> m.value]

\* predict_game: the manager after the call (each predict records its
\* columns), whether an exception reached the caller, and the value returned
predict_game(self, features, outs) ==
    LET p == GamePreds(self, features, outs)
        m == MergePredictions(p["outcome"].ret, p["spread"].ret, p["total"].ret)
    IN  [self |-> [k \in Kinds |-> p[k].self],
         preds |-> [k \in Kinds |-> p[k].ret],
         raised |-> FALSE,
         value |-> IF m.raised THEN NeutralBundle ELSE m.value]

(***************************************************************************)
(* The inputs the operations are exercised with.                           *)
(***************************************************************************)
\* raw answers of a fitted classifier: P(home win) in thousandths
OutcomeOuts == {0, 500, 730}

\* raw answers of a fitted spread regressor, tenths of a point
SpreadOuts == {-250, 0, 70}

\* raw answers of a fitted total regressor, tenths of a point
TotalOuts == {1000, 2200, 2650}

Outs(kind) ==
    CASE kind = "outcome" -> OutcomeOuts
      [] kind = "spread"  -> SpreadOuts
      [] kind = "total"   -> TotalOuts

\* what the estimator of a predictor can answer.  A classifier answers any
\* probability.  The total model is a random forest: its answer is an average
\* of labels it was fitted on, so it lies between the least and the greatest.
\* The spread model is a gradient boosting of the label mean: fitted on equal
\* labels it answers that label, otherwise any value.  Without an estimator
\* the answer is never asked for.
EstimatorOuts(kind, self) ==
    IF self.model = None \/ kind = "outcome" THEN Outs(kind)
    ELSE LET t == self.model.targets
         IN  IF kind = "total"
             THEN {o \in Outs(kind) : t.lo <= o /\ o <= t.hi} \cup {t.lo, t.hi}
             ELSE IF t.lo = t.hi THEN {t.lo}
             ELSE Outs(kind) \cup {t.lo, t.hi}

\* the histories the games table starts from
AllScheduled == [g \in GameIds |-> Scheduled("A", "B", g)]

HomeWins == [g \in GameIds |-> Completed("A", "B", g, 100, 90)]

OneLoss ==
    [g \in GameIds |->
        IF g = 1 THEN Completed("A", "B", g, 90, 100) ELSE Completed("A", "B", g, 100, 90)]

Mixed ==
    [g \in GameIds |->
        IF g % 2 = 0 THEN Completed("B", "A", g, 95, 105) ELSE Completed("A", "B", g, 100, 90)]

\* home wins by 10 alternating with low-scoring home losses by 25
Lopsided ==
    [g \in GameIds |->
        IF g % 2 = 0 THEN Completed("B", "A", g, 40, 65) ELSE Completed("A", "B", g, 100, 90)]

Histories == {AllScheduled, HomeWins, OneLoss, Mixed, Lopsided}

\* the training date ranges: unbounded, the last day only, and an empty one
DateRanges ==
    {<<None, None>>, <<Some(NumGames), None>>, <<Some(NumGames), Some(1)>>}

\* whether each artifact write succeeds: every write, every write but the
\* total model's, or none; nothing is written for an empty frame
WriteOutcomes(training_data) ==
    IF IsEmpty(training_data) THEN {[k \in Kinds |-> TRUE]}
    ELSE {[k \in Kinds |-> TRUE], [k \in Kinds |-> k # "total"], [k \in Kinds |-> FALSE]}

\* a frame without the given columns
Without(df, cols) == [df EXCEPT !.cols = @ \ cols]

\* the first n rows of a frame
FirstRows(df, n) == [df EXCEPT !.rows = SubSeq(@, 1, Min(n, Len(@)))]

\* the frames train is called with directly: the whole corpus of the store,
\* the corpus without a label column, without any feature column, a single
\* row, and the empty frame
Corpora(gs) ==
    LET whole == prepare_training_data(
                    gs, CHOOSE o \in DateOrders(gs, TrainingGames(gs, None, None)) : TRUE,
                    TRUE)
    IN  {EmptyFrame, whole, FirstRows(whole, 1),
         Without(whole, {"home_win"}), Without(whole, {"point_spread"}),
         Without(whole, {"total_points"}), Without(whole, FeatureVectorCols)}

\* the one-row frames predict is called with directly
FeatureFrames ==
    {FeatureFrame,
     Without(FeatureFrame, {"h2h_win_pct", "h2h_avg_margin", "h2h_avg_total"})}

Ready(p) == p.is_trained /\ p.model # None

(***************************************************************************)
(* The model lifecycle: the operations of the predictors and the manager.  *)
(***************************************************************************)
StoreIdle ==
    /\ predictions = {}
    /\ sessions = <<>>
    /\ committed = <<>>

Init ==
    /\ games \in Histories
    /\ StoreIdle
    /\ mgr = NewManager
    /\ artifacts = [a \in ArtifactNames |-> None]
    /\ batch = None
    /\ last = [op |-> "start"]

\* a new process constructs its MLModelManager
Construct ==
    /\ mgr' = NewManager
    /\ last' = [op |-> "construct"]
    /\ UNCHANGED <<games, predictions, artifacts, sessions, committed, batch>>

\* The predictors share no state, so a behaviour of SpecPredictor exercises
\* one predictor object: the one of the given kind, the others staying fresh.
Alone(kind) == \A k \in Kinds \ {kind} : mgr[k] = NewPredictor

\* one predictor's train, called with a frame
Train ==
    \E kind \in Kinds, training_data \in Corpora(games) :
      \E test \in TestSets(Len(training_data.rows)) :
        LET r == train(kind, mgr[kind], training_data, test)
        IN  /\ Alone(kind)
            /\ mgr' = [mgr EXCEPT ![kind] = r.self]
            /\ last' = [op |-> "train", kind |-> kind,
                        rows |-> Len(training_data.rows), cols |-> training_data.cols,
                        before |-> mgr[kind], ret |-> r.ret]
            /\ UNCHANGED <<games, predictions, artifacts, sessions, committed, batch>>

\* one predictor's predict, called with a one-row frame
Predict ==
    \E kind \in Kinds, features \in FeatureFrames :
      \E out \in EstimatorOuts(kind, mgr[kind]) :
        LET r == predict(kind, mgr[kind], features, out)
        IN  /\ Alone(kind)
            /\ mgr' = [mgr EXCEPT ![kind] = r.self]
            /\ last' = [op |-> "predict", kind |-> kind, cols |-> features.cols,
                        before |-> mgr[kind], out |-> out, ret |-> r.ret]
            /\ UNCHANGED <<games, predictions, artifacts, sessions, committed, batch>>

\* MLModelManager.train_all_models over the store's games
TrainAllModels ==
    \E range \in DateRanges, db_ok \in BOOLEAN :
      \E order \in DateOrders(games, TrainingGames(games, range[1], range[2])) :
        LET training_data == prepare_training_data(games, order, db_ok)
        IN  \E test \in TestSets(Len(training_data.rows)),
               write_ok \in WriteOutcomes(training_data) :
              LET r == train_all_models(mgr, artifacts, training_data, test, write_ok)
              IN  /\ mgr' = r.self
                  /\ artifacts' = r.arts
                  /\ last' = [op |-> "train_all_models",
                              rows |-> Len(training_data.rows),
                              attempted |-> r.attempted, success |-> r.success,
                              written |-> r.written, ret |-> r.ret]
                  /\ UNCHANGED <<games, predictions, sessions, committed, batch>>

\* MLModelManager.predict_game; whatever the two teams are, the frame built
\* from create_game_features has one row and every feature column
PredictGame ==
    \E outcome \in EstimatorOuts("outcome", mgr["outcome"]),
       spread \in EstimatorOuts("spread", mgr["spread"]),
       total \in EstimatorOuts("total", mgr["total"]) :
        LET outs == [outcome |-> outcome, spread |-> spread, total |-> total]
            r == predict_game(mgr, FeatureFrame, outs)
        IN  /\ mgr' = r.self
            /\ last' = [op |-> "predict_game",
                        ready |-> {k \in Kinds : Ready(mgr[k])}, preds |-> r.preds,
                        outs |-> outs, raised |-> r.raised, value |-> r.value]
            /\ UNCHANGED <<games, predictions, artifacts, sessions, committed, batch>>

\* MLModelManager.load_model of one artifact
LoadModel ==
    \E kind \in Kinds, read_ok \in BOOLEAN :
        /\ last' = [op |-> "load_model", kind |-> kind, read_ok |-> read_ok,
                    ret |-> load_model(artifacts, ArtifactName(kind), read_ok)]
        /\ UNCHANGED <<games, predictions, mgr, artifacts, sessions, committed, batch>>

\* the program: processes that construct a manager, train, predict and load
Next ==
    \/ Construct
    \/ TrainAllModels
    \/ PredictGame
    \/ LoadModel

Spec == Init /\ [][Next]_vars

\* the predictor classes on their own, called with any frame
NextPredictor ==
    \/ Train
    \/ Predict

SpecPredictor == Init /\ [][NextPredictor]_vars

(***************************************************************************)
(* The prediction store: store_predictions and update_prediction_accuracy  *)
(* of PredictionGenerator.  Each call opens its own connection, so calls of *)
(* different processes overlap statement by statement; a row written by an *)
(* open transaction stays locked until that transaction ends, and a        *)
(* statement that needs the row waits for it.                              *)
(***************************************************************************)
NumStoreGames == 1
MaxSessions == 2
StoreGameIds == 1..NumStoreGames
SessionIds == 1..MaxSessions

\* the prediction_type written by the first, second and third statement
StoreKinds == <<"winner", "spread", "total">>

\* a bundle predict_game returns when all three estimators answer
BundleOf(outs) ==
    LET fitted == [model |-> [classes |-> {0, 1}]]
    IN  MergePredictions(PredictedDict("outcome", fitted, outs["outcome"]),
                         PredictedDict("spread", fitted, outs["spread"]),
                         PredictedDict("total", fitted, outs["total"])).value

\* the bundles handed to store_predictions
Bundles ==
    {NeutralBundle,
     BundleOf([outcome |-> 730, spread |-> 70, total |-> 1950]),
     BundleOf([outcome |-> 500, spread |-> 20, total |-> 2200])}

\* the final scores the ingestion records for a game
ScorePairs == {<<100, 90>>, <<95, 105>>, <<100, 100>>}

Key(r) == <<r.game_id, r.model_name, r.prediction_type>>
KeysOf(rows) == {Key(r) : r \in rows}

\* the parameters of the statement for one prediction_type
PredictedValue(preds, type) ==
    CASE type = "winner" -> preds.home_win_probability
      [] type = "spread" -> preds.predicted_spread
      [] type = "total"  -> preds.predicted_total

ConfidenceOf(preds, type) ==
    CASE type = "winner" -> preds.confidence_scores["outcome"]
      [] type = "spread" -> preds.confidence_scores["spread"]
      [] type = "total"  -> preds.confidence_scores["total"]

\* INSERT that always adds a row
Upsert_appends(table, game_id, model_name, type, value, confidence) ==
    LET n == Cardinality({r \in table : Key(r) = <<game_id, model_name, type>>})
    IN  table \cup {[game_id |-> game_id, model_name |-> model_name,
                     prediction_type |-> type, predicted_value |-> value,
                     confidence |-> confidence, actual_value |-> None,
                     is_correct |-> None, copy |-> n]}

\* INSERT ... ON CONFLICT (game_id, model_name, prediction_type) DO UPDATE;
\* copy tells apart the rows of one key, and is 0 as long as there is one
Upsert(table, game_id, model_name, type, value, confidence) ==
    IF \E r \in table : Key(r) = <<game_id, model_name, type>>
    THEN {IF Key(r) = <<game_id, model_name, type>>
          THEN [r EXCEPT !.predicted_value = value, !.confidence = confidence]
          ELSE r : r \in table}
    ELSE table \cup {[game_id |-> game_id, model_name |-> model_name,
                      prediction_type |-> type, predicted_value |-> value,
                      confidence |-> confidence, actual_value |-> None,
                      is_correct |-> None, copy |-> 0]}

\* the realized value of a completed game for one prediction_type
ActualValue(g, type) ==
    CASE type = "winner" -> IF Get(g.home_score) > Get(g.away_score) THEN 1 ELSE 0
      [] type = "spread" -> Get(g.home_score) - Get(g.away_score)
      [] type = "total"  -> Get(g.home_score) + Get(g.away_score)

\* the correctness flag with the tolerance bands exclusive
IsCorrect_strict(r, g) ==
    CASE r.prediction_type = "winner" ->
           \/ r.predicted_value > 500 /\ Get(g.home_score) > Get(g.away_score)
           \/ r.predicted_value <= 500 /\ Get(g.home_score) <= Get(g.away_score)
      [] r.prediction_type = "spread" ->
           Abs(r.predicted_value - 10 * (Get(g.home_score) - Get(g.away_score))) < 30
      [] r.prediction_type = "total" ->
           Abs(r.predicted_value - 10 * (Get(g.home_score) + Get(g.away_score))) < 50

\* the correctness flag with a tied score taken for neither side
IsCorrect_tie(r, g) ==
    CASE r.prediction_type = "winner" ->
           \/ r.predicted_value > 500 /\ Get(g.home_score) > Get(g.away_score)
           \/ r.predicted_value <= 500 /\ Get(g.home_score) < Get(g.away_score)
      [] r.prediction_type = "spread" ->
           Abs(r.predicted_value - 10 * (Get(g.home_score) - Get(g.away_score))) <= 30
      [] r.prediction_type = "total" ->
           Abs(r.predicted_value - 10 * (Get(g.home_score) + Get(g.away_score))) <= 50

\* the correctness flag: predicted spread and total are in tenths of a point
IsCorrect(r, g) ==
    CASE r.prediction_type = "winner" ->
           \/ r.predicted_value > 500 /\ Get(g.home_score) > Get(g.away_score)
           \/ r.predicted_value <= 500 /\ Get(g.home_score) <= Get(g.away_score)
      [] r.prediction_type = "spread" ->
           Abs(r.predicted_value - 10 * (Get(g.home_score) - Get(g.away_score))) <= 30
      [] r.prediction_type = "total" ->
           Abs(r.predicted_value - 10 * (Get(g.home_score) + Get(g.away_score))) <= 50

\* the WHERE clause with the actual_value IS NULL condition left out
Reconcilable_any(r, gs, type) ==
    /\ r.game_id \in DOMAIN gs
    /\ r.prediction_type = type
    /\ Qualifies(gs[r.game_id])

\* the WHERE clause of the three UPDATE statements
Reconcilable(r, gs, type) ==
    /\ r.game_id \in DOMAIN gs
    /\ r.prediction_type = type
    /\ Qualifies(gs[r.game_id])
    /\ r.actual_value = None

\* an UPDATE statement that also resets the confidence of the rows it writes
UpdateAccuracy_resets(table, gs, type) ==
    {IF Reconcilable(r, gs, type)
     THEN [r EXCEPT !.actual_value = Some(ActualValue(gs[r.game_id], type)),
                    !.is_correct = Some(IsCorrect(r, gs[r.game_id])),
                    !.confidence = 1000]
     ELSE r : r \in table}

\* one UPDATE predictions ... FROM games statement
UpdateAccuracy(table, gs, type) ==
    {IF Reconcilable(r, gs, type)
     THEN [r EXCEPT !.actual_value = Some(ActualValue(gs[r.game_id], type)),
                    !.is_correct = Some(IsCorrect(r, gs[r.game_id]))]
     ELSE r : r \in table}

\* update_prediction_accuracy run without interference: the three statements
update_prediction_accuracy(table, gs) ==
    UpdateAccuracy(UpdateAccuracy(UpdateAccuracy(table, gs, "winner"), gs, "spread"),
                   gs, "total")

\* every key a stored bundle can write
AllKeys == StoreGameIds \X {"Project Apex ML"} \X {"winner", "spread", "total"}

\* the keys locked by the open transactions other than sid
LockedByOthers(sid) ==
    UNION {KeysOf(sessions[t].written) :
              t \in {u \in SessionIds \ {sid} : sessions[u] # None}}

\* leaving the with-block on an exception with the rows written so far kept
Rollback_keeps(sid, op) ==
    /\ predictions' =
          IF sessions[sid] = None THEN predictions
          ELSE {r \in predictions : Key(r) \notin KeysOf(sessions[sid].written)}
                  \cup sessions[sid].written
    /\ sessions' = [sessions EXCEPT ![sid] = None]
    /\ last' = [op |-> op, step |-> "error"]
    /\ UNCHANGED <<games, mgr, artifacts, committed, batch>>

\* leaving the with-block on an exception: the connection is dropped uncommitted
Rollback(sid, op) ==
    /\ sessions' = [sessions EXCEPT ![sid] = None]
    /\ last' = [op |-> op, step |-> "error"]
    /\ UNCHANGED <<games, predictions, mgr, artifacts, committed, batch>>

\* conn.commit(): the transaction's rows replace the committed rows of their keys
CommitRows(self) ==
    {r \in predictions : Key(r) \notin KeysOf(self.written)} \cup self.written

\* a game recorded as completed with the away score still missing
Unscored(home, away, date) ==
    [Completed(home, away, date, 100, 100) EXCEPT !.away_score = None]

\* the games the store starts with: each scheduled, or completed without a
\* full score
InitStore ==
    /\ games \in [StoreGameIds -> {Scheduled("A", "B", 1), Unscored("A", "B", 1)}]
    /\ predictions = {}
    /\ sessions = [sid \in SessionIds |-> None]
    /\ committed = [k \in AllKeys |-> None]
    /\ mgr = NewManager
    /\ artifacts = [a \in ArtifactNames |-> None]
    /\ batch = None
    /\ last = [op |-> "start"]

\* the ingestion records a game's final score, or corrects a recorded one
RecordResult ==
    \E g \in StoreGameIds, score \in ScorePairs :
        /\ games' = [games EXCEPT ![g] =
                        Completed(@.home_team_id, @.away_team_id, @.game_date,
                                  score[1], score[2])]
        /\ last' = [op |-> "record_result", step |-> "done"]
        /\ UNCHANGED <<predictions, mgr, artifacts, sessions, committed, batch>>

\* the transaction of a call: the one it has open, or the one it opens now
Session(sid, fresh) ==
    IF sessions[sid] = None THEN fresh ELSE sessions[sid]

\* what the committed call wrote for a key, and whether it replaced another value
CommittedCall(self, k, old) ==
    [predicted_value |-> PredictedValue(self.predictions, k[3]),
     confidence |-> ConfidenceOf(self.predictions, k[3]),
     replaced |-> old # None /\
                  Get(old).predicted_value # PredictedValue(self.predictions, k[3])]

\* the rows a transaction sees: the committed rows and, over them, its own writes
Visible(self) ==
    {r \in predictions : Key(r) \notin KeysOf(self.written)} \cup self.written

\* the transaction's own rows after a statement that wrote the rows of keys
Written(self, after, keys) ==
    {r \in after : Key(r) \in keys \cup KeysOf(self.written)}

\* store_predictions, one step per INSERT statement.  Opening the connection
\* is part of the first step and conn.commit() of the third: neither touches
\* a row that another transaction can reach in between.
StorePredictions ==
    \E sid \in SessionIds, game_id \in StoreGameIds, preds \in Bundles,
       db_ok \in BOOLEAN :
        LET self == Session(sid, [op |-> "store_predictions", game_id |-> game_id,
                             predictions |-> preds, pc |-> 1, written |-> {}])
            type == StoreKinds[self.pc]
        IN  /\ self.op = "store_predictions"
            /\ sessions[sid] # None => (game_id = self.game_id /\ preds = self.predictions)
            /\ IF "model_name" \notin DOMAIN self.predictions \/ ~db_ok
               THEN Rollback(sid, "store_predictions")
               ELSE
                 LET before == Visible(self)
                     after  == Upsert(before, self.game_id, self.predictions.model_name,
                                      type, PredictedValue(self.predictions, type),
                                      ConfidenceOf(self.predictions, type))
                     done   == [self EXCEPT !.pc = @ + 1,
                                            !.written = Written(self, after,
                                                 {<<self.game_id, self.predictions.model_name, type>>})]
                 IN  /\ <<self.game_id, self.predictions.model_name, type>>
                            \notin LockedByOthers(sid)
                     /\ last' = [op |-> "store_predictions", step |-> type]
                     /\ IF self.pc < 3
                        THEN /\ sessions' = [sessions EXCEPT ![sid] = done]
                             /\ UNCHANGED <<games, predictions, mgr, artifacts, committed, batch>>
                        ELSE /\ predictions' = CommitRows(done)
                             /\ committed' =
                                   [k \in AllKeys |->
                                       IF k[1] = self.game_id
                                          /\ k[2] = self.predictions.model_name
                                       THEN Some(CommittedCall(self, k, committed[k]))
                                       ELSE committed[k]]
                             /\ sessions' = [sessions EXCEPT ![sid] = None]
                             /\ UNCHANGED <<games, mgr, artifacts, batch>>

\* update_prediction_accuracy, one step per UPDATE statement, the connection
\* opened in the first step and conn.commit() in the third
UpdatePredictionAccuracy ==
    \E sid \in SessionIds, db_ok \in BOOLEAN :
        LET self == Session(sid, [op |-> "update_prediction_accuracy", pc |-> 1,
                             written |-> {}])
            type == StoreKinds[self.pc]
        IN  /\ self.op = "update_prediction_accuracy"
            /\ IF ~db_ok
               THEN Rollback(sid, "update_prediction_accuracy")
               ELSE
                 LET before == Visible(self)
                     after  == UpdateAccuracy(before, games, type)
                     done   == [self EXCEPT !.pc = @ + 1,
                                            !.written = Written(self, after, KeysOf(after \ before))]
                 IN  /\ KeysOf(after \ before) \cap LockedByOthers(sid) = {}
                     /\ last' = [op |-> "update_prediction_accuracy", step |-> type]
                     /\ IF self.pc < 3
                        THEN /\ sessions' = [sessions EXCEPT ![sid] = done]
                             /\ UNCHANGED <<games, predictions, mgr, artifacts, committed, batch>>
                        ELSE /\ predictions' = CommitRows(done)
                             /\ sessions' = [sessions EXCEPT ![sid] = None]
                             /\ UNCHANGED <<games, mgr, artifacts, committed, batch>>

NextStore ==
    \/ RecordResult
    \/ StorePredictions
    \/ UpdatePredictionAccuracy

SpecStore == InitStore /\ [][NextStore]_vars

(***************************************************************************)
(* The batch run: generate_predictions_for_upcoming_games of               *)
(* PredictionGenerator, one step for the query of the upcoming games, one  *)
(* per iteration of its loop and one for the final log line.  The run is   *)
(* sequential code of one process.                                         *)
(***************************************************************************)
\* days_ahead: int = 7
DaysAhead == 7

\* datetime.now().date(): the day after the last completed game of a season
Today == NumGames

\* a season whose last games are still to be played: two today, one
\* tomorrow and one later than days_ahead
Upcoming ==
    [g \in 1..(NumGames + 3) |->
        IF g < NumGames THEN Completed("A", "B", g, 100, 90)
        ELSE IF g = NumGames + 3 THEN Scheduled("A", "B", Today + DaysAhead + 1)
        ELSE Scheduled("A", "B", Today + ((g - NumGames) \div 2))]

GenerateHistories == {Upcoming, AllScheduled, HomeWins}

\* the games of the upcoming-games query
UpcomingGames(gs, start_date, end_date) ==
    {g \in DOMAIN gs :
        /\ gs[g].status = "scheduled"
        /\ gs[g].game_date >= start_date
        /\ gs[g].game_date <= end_date}

\* ORDER BY g.game_date: the orders of the set S of games by ascending date
RECURSIVE GameOrders(_, _)
GameOrders(gs, S) ==
    IF S = {} THEN {<<>>}
    ELSE LET first == {g \in S : \A h \in S : gs[g].game_date <= gs[h].game_date}
         IN  UNION {{<<g>> \o rest : rest \in GameOrders(gs, S \ {g})} : g \in first}

\* store_predictions run alone, as one transaction: the three upserts and the
\* commit, or nothing when a key is missing or a statement fails
store_predictions(table, game_id, preds, db_ok) ==
    IF "model_name" \notin DOMAIN preds \/ ~db_ok
    THEN [table |-> table, stored |-> FALSE]
    ELSE
      LET t1 == Upsert(table, game_id, preds.model_name, "winner",
                       PredictedValue(preds, "winner"), ConfidenceOf(preds, "winner"))
          t2 == Upsert(t1, game_id, preds.model_name, "spread",
                       PredictedValue(preds, "spread"), ConfidenceOf(preds, "spread"))
          t3 == Upsert(t2, game_id, preds.model_name, "total",
                       PredictedValue(preds, "total"), ConfidenceOf(preds, "total"))
      IN  [table |-> t3, stored |-> TRUE]

\* a loop that ends at the first game whose rows were not stored
iterate_break(b, game_id, raised, stored) ==
    [b EXCEPT !.queue = IF stored THEN Tail(@) ELSE <<>>,
              !.processed = Append(@, game_id),
              !.predictions_made = IF raised THEN @ ELSE @ + 1,
              !.stored = IF stored THEN @ \cup {game_id} ELSE @]

\* one iteration of the loop over games_df: the counter is incremented unless
\* predict_game or store_predictions raised; stored, the games whose rows
\* this run committed, and db_ok, whether the store answered every statement
\* of the run so far, are kept for the properties
iterate(b, game_id, raised, stored) ==
    [b EXCEPT !.queue = Tail(@),
              !.processed = Append(@, game_id),
              !.predictions_made = IF raised THEN @ ELSE @ + 1,
              !.stored = IF stored THEN @ \cup {game_id} ELSE @]

InitGenerate ==
    /\ games \in GenerateHistories
    /\ StoreIdle
    /\ mgr = NewManager
    /\ artifacts = [a \in ArtifactNames |-> None]
    /\ batch = None
    /\ last = [op |-> "start"]

\* the generator's model_manager is trained between two runs
GeneratorTrain ==
    /\ batch = None
    /\ TrainAllModels

\* the query of the upcoming games: a failure is logged by the outer except,
\* an empty result returns, otherwise the loop starts
GenerateBegin ==
    /\ batch = None
    /\ \E db_ok \in BOOLEAN :
         \E order \in GameOrders(games, UpcomingGames(games, Today, Today + DaysAhead)) :
            /\ batch' = IF ~db_ok \/ order = <<>> THEN None
                        ELSE [order |-> order, queue |-> order, processed |-> <<>>,
                              predictions_made |-> 0, stored |-> {}, db_ok |-> TRUE]
            /\ last' = [op |-> "generate_predictions_for_upcoming_games",
                        step |-> IF ~db_ok THEN "error"
                                 ELSE IF order = <<>> THEN "no_games" ELSE "found",
                        raised |-> FALSE]
            /\ UNCHANGED <<games, predictions, mgr, artifacts, sessions, committed>>

\* one iteration: predict_game, store_predictions, the counter
GenerateStep ==
    /\ batch # None
    /\ batch.queue # <<>>
    /\ \E outcome \in EstimatorOuts("outcome", mgr["outcome"]),
          spread \in EstimatorOuts("spread", mgr["spread"]),
          total \in EstimatorOuts("total", mgr["total"]),
          db_ok \in BOOLEAN :
         LET game_id == batch.queue[1]
             r == predict_game(mgr, FeatureFrame,
                               [outcome |-> outcome, spread |-> spread, total |-> total])
             s == IF r.raised THEN [table |-> predictions, stored |-> FALSE]
                  ELSE store_predictions(predictions, game_id, r.value, db_ok)
         IN  /\ mgr' = r.self
             /\ predictions' = s.table
             /\ batch' = [iterate(batch, game_id, r.raised, s.stored)
                            EXCEPT !.db_ok = @ /\ db_ok]
             /\ last' = [op |-> "generate_predictions_for_upcoming_games",
                         step |-> "game", game_id |-> game_id, stored |-> s.stored,
                         raised |-> FALSE]
             /\ UNCHANGED <<games, artifacts, sessions, committed>>

\* the loop is over: the count is logged and the call returns
GenerateEnd ==
    /\ batch # None
    /\ batch.queue = <<>>
    /\ batch' = None
    /\ last' = [op |-> "generate_predictions_for_upcoming_games", step |-> "done",
                order |-> batch.order, processed |-> batch.processed,
                predictions_made |-> batch.predictions_made, stored |-> batch.stored,
                db_ok |-> batch.db_ok, raised |-> FALSE]
    /\ UNCHANGED <<games, predictions, mgr, artifacts, sessions, committed>>

NextGenerate ==
    \/ GeneratorTrain
    \/ GenerateBegin
    \/ GenerateStep
    \/ GenerateEnd

SpecGenerate == InitGenerate /\ [][NextGenerate]_vars

\* the loop is straight-line code of one thread: a started iteration and the
\* final log line are reached unless the process is killed
SpecGenerateFair ==
    SpecGenerate /\ WF_vars(GenerateStep) /\ WF_vars(GenerateEnd)

(***************************************************************************)
(* The feature pipeline: the aggregators, create_game_features and         *)
(* prepare_training_data called on a games table.                          *)
(***************************************************************************)
FeatureTeams == {"A", "B", "C", "D"}

\* six meetings of A and B, the two oldest on the same day with opposite results
TiedDates ==
    <<Completed("A", "B", 1, 100, 90), Completed("A", "B", 1, 90, 100),
      Completed("A", "B", 2, 100, 90), Completed("A", "B", 3, 100, 90),
      Completed("A", "B", 4, 100, 90), Completed("A", "B", 5, 100, 90)>>

\* a table with games that do not qualify: a score missing, not completed
Partial ==
    <<Completed("A", "C", 1, 100, 90),
      [Completed("A", "B", 2, 100, 90) EXCEPT !.home_score = None],
      Scheduled("B", "C", 3),
      [Completed("A", "B", 2, 50, 40) EXCEPT !.status = "in_progress"],
      Completed("B", "C", 2, 95, 105),
      Completed("A", "C", 3, 100, 100),
      [Completed("D", "A", 1, 100, 90) EXCEPT !.away_score = None],
      Scheduled("D", "B", 4)>>

FeatureHistories == {AllScheduled, HomeWins, Mixed, TiedDates, Partial}

\* the date ranges handed to prepare_training_data
FeatureDateRanges ==
    {<<None, None>>, <<Some(2), None>>, <<None, Some(2)>>, <<Some(2), Some(3)>>,
     <<Some(3), Some(2)>>}

\* which of the three aggregator queries of one create_game_features call succeed
QueryOutcomes ==
    {<<TRUE, TRUE, TRUE>>, <<FALSE, TRUE, TRUE>>, <<TRUE, TRUE, FALSE>>,
     <<FALSE, FALSE, FALSE>>}

InitFeatures ==
    /\ games \in FeatureHistories
    /\ StoreIdle
    /\ mgr = NewManager
    /\ artifacts = [a \in ArtifactNames |-> None]
    /\ batch = None
    /\ last = [op |-> "start"]

GetTeamStats ==
    \E team_id \in FeatureTeams, db_ok \in BOOLEAN :
        \E df \in RecentFirst(games, TeamGames(games, team_id), GamesBack) :
            /\ last' = [op |-> "get_team_stats", team_id |-> team_id, db_ok |-> db_ok,
                        df |-> df,
                        ret |-> get_team_stats(games, team_id, df, db_ok)]
            /\ UNCHANGED <<games, predictions, mgr, artifacts, sessions, committed, batch>>

GetHeadToHeadStats ==
    \E team1_id \in FeatureTeams, db_ok \in BOOLEAN :
        \E team2_id \in FeatureTeams \ {team1_id} :
            \E df \in RecentFirst(games, SharedGames(games, team1_id, team2_id),
                                  H2HGamesBack) :
                /\ last' = [op |-> "get_head_to_head_stats", team1_id |-> team1_id,
                            team2_id |-> team2_id, db_ok |-> db_ok, df |-> df,
                            ret |-> get_head_to_head_stats(games, team1_id, team2_id,
                                                           df, db_ok)]
                /\ UNCHANGED <<games, predictions, mgr, artifacts, sessions, committed, batch>>

CreateGameFeatures ==
    \E home \in FeatureTeams, db_ok \in QueryOutcomes :
        \E away \in FeatureTeams \ {home} :
            \E home_df \in RecentFirst(games, TeamGames(games, home), GamesBack),
               away_df \in RecentFirst(games, TeamGames(games, away), GamesBack),
               h2h_df \in RecentFirst(games, SharedGames(games, home, away),
                                      H2HGamesBack) :
                /\ last' = [op |-> "create_game_features", home |-> home, away |-> away,
                            db_ok |-> db_ok,
                            ret |-> create_game_features(
                                       get_team_stats(games, home, home_df, db_ok[1]),
                                       get_team_stats(games, away, away_df, db_ok[2]),
                                       get_head_to_head_stats(games, home, away, h2h_df,
                                                              db_ok[3]))]
                /\ UNCHANGED <<games, predictions, mgr, artifacts, sessions, committed, batch>>

\* the game ids of a query result
Ids(df) == {df[i] : i \in 1..Len(df)}

\* the rows of the games table that the three queries of one
\* create_game_features call returned, a failed query having returned none
GamesRead(home_df, away_df, h2h_df, db_ok) ==
    (IF db_ok[1] THEN Ids(home_df) ELSE {})
        \cup (IF db_ok[2] THEN Ids(away_df) ELSE {})
        \cup (IF db_ok[3] THEN Ids(h2h_df) ELSE {})

\* prepare_training_data.  The loop calls create_game_features(home, away)
\* for every row; for one row of the result, row, the action keeps the
\* feature vector that call computed and the games its queries returned
\* (row is 0 for the empty corpus).
PrepareTrainingData ==
    \E range \in FeatureDateRanges, db_ok \in BOOLEAN :
        \E order \in DateOrders(games, TrainingGames(games, range[1], range[2])) :
            LET ret == prepare_training_data(games, order, db_ok)
            IN  \/ /\ IsEmpty(ret)
                   /\ last' = [op |-> "prepare_training_data", start_date |-> range[1],
                               end_date |-> range[2], db_ok |-> db_ok, ret |-> ret,
                               row |-> 0]
                   /\ UNCHANGED <<games, predictions, mgr, artifacts, sessions,
                                  committed, batch>>
                \/ /\ ~IsEmpty(ret)
                   /\ \E row \in 1..Len(order), queries \in QueryOutcomes :
                        LET home == games[order[row]].home_team_id
                            away == games[order[row]].away_team_id
                        IN  \E home_df \in RecentFirst(games, TeamGames(games, home), GamesBack),
                               away_df \in RecentFirst(games, TeamGames(games, away), GamesBack),
                               h2h_df \in RecentFirst(games, SharedGames(games, home, away),
                                                      H2HGamesBack) :
                              last' = [op |-> "prepare_training_data",
                                       start_date |-> range[1], end_date |-> range[2],
                                       db_ok |-> db_ok, ret |-> ret, row |-> row,
                                       features |-> create_game_features(
                                          get_team_stats(games, home, home_df, queries[1]),
                                          get_team_stats(games, away, away_df, queries[2]),
                                          get_head_to_head_stats(games, home, away, h2h_df,
                                                                 queries[3])),
                                       read |-> GamesRead(home_df, away_df, h2h_df, queries)]
                   /\ UNCHANGED <<games, predictions, mgr, artifacts, sessions,
                                  committed, batch>>

NextFeatures ==
    \/ GetTeamStats
    \/ GetHeadToHeadStats
    \/ CreateGameFeatures
    \/ PrepareTrainingData

SpecFeatures == InitFeatures /\ [][NextFeatures]_vars

(***************************************************************************)
(* Properties of the predictors and the manager.                           *)
(***************************************************************************)
\* the merge of the last predict_game could not read a key of the outcome dictionary
MergeFailed == "away_win_probability" \notin DOMAIN last.preds["outcome"]

\* C1: predict_game never raises to its caller; when querying a model or
\* merging the three results fails it returns the neutral bundle (0.5, 0.5,
\* 0.0, 220.0, every confidence 0.0).
C1_PredictGameNeverRaises ==
    last.op = "predict_game" =>
        /\ ~last.raised
        /\ (MergeFailed => last.value = NeutralBundle)

C1_Witness ==
    /\ last.op = "predict_game"
    /\ MergeFailed
    /\ last.ready # {}
    /\ ~last.raised
    /\ last.value = NeutralBundle

\* C2: predict on a model that is not ready (is_trained false or no
\* estimator) returns that model's neutral fallback and leaves the model as
\* it was; a value other than the fallback comes from a ready model only.
C2_UntrainedPredictFallsBack ==
    last.op = "predict" =>
        /\ (~Ready(last.before) =>
                last.ret = Fallback(last.kind) /\ mgr[last.kind] = last.before)
        /\ (last.ret # Fallback(last.kind) => Ready(last.before))

C2_Witness ==
    /\ last.op = "predict"
    /\ ~last.before.is_trained
    /\ last.before.model # None
    /\ last.ret = Fallback(last.kind)

\* the frame of the last train call was empty or had no label column
InvalidCorpus ==
    last.rows = 0 \/ last.cols = {} \/ LabelCol(last.kind) \notin last.cols

\* C3: train on an empty corpus, or on a corpus without the model's label
\* column, returns False and changes nothing of the model; a model that was
\* untrained still answers every predict with its neutral fallback.
C3_InvalidCorpusNoTransition ==
    (last.op = "train" /\ InvalidCorpus) =>
        /\ last.ret = FALSE
        /\ mgr[last.kind] = last.before
        /\ (~Ready(last.before) =>
              \A f \in FeatureFrames : \A out \in Outs(last.kind) :
                 predict(last.kind, mgr[last.kind], f, out).ret = Fallback(last.kind))

C3_Witness ==
    /\ last.op = "train"
    /\ last.rows > 0
    /\ LabelCol(last.kind) \notin last.cols
    /\ last.cols # {}
    /\ ~Ready(last.before)
    /\ last.ret = FALSE

\* C4: when some but not all models are ready, the bundle predict_game
\* returns carries each model's own answer: a ready model's output, an
\* unready model's fallback.
C4_PartialMergeKeepsReadyOutputs ==
    (last.op = "predict_game" /\ last.ready # {} /\ last.ready # Kinds) =>
        /\ last.value.home_win_probability = last.preds["outcome"].home_win_probability
        /\ last.value.predicted_spread = last.preds["spread"].predicted_spread
        /\ last.value.predicted_total = last.preds["total"].predicted_total
        /\ last.value.confidence_scores =
              [outcome |-> last.preds["outcome"].confidence,
               spread |-> last.preds["spread"].confidence,
               total |-> last.preds["total"].confidence]

\* C5: predict_game queries loaded-or-trained instances: a model whose
\* artifact is on disk is ready in the manager that answers predict_game,
\* also in a manager constructed after the artifact was written.
C5_PersistedModelsAnswer ==
    last.op = "predict_game" =>
        \A k \in Kinds : artifacts[ArtifactName(k)] # None => k \in last.ready

\* C6: with a non-empty corpus train_all_models calls train on all three
\* predictors whatever the others return (the two regressors train on any
\* corpus of two rows or more, also when the classifier fails), every model
\* reported trained is trained, and the call returns True exactly when some
\* train returned True; with an empty corpus it returns False and changes no
\* model and no artifact.
C6_TrainAllIndependent ==
    [][last'.op = "train_all_models" =>
         IF last'.rows > 0
         THEN /\ last'.attempted = Kinds
              /\ (last'.ret <=> \E k \in Kinds : last'.success[k])
              /\ \A k \in Kinds : last'.success[k] => Ready(mgr'[k])
              /\ (last'.rows >= 2 => last'.success["spread"] /\ last'.success["total"])
         ELSE /\ last'.ret = FALSE
              /\ mgr' = mgr
              /\ artifacts' = artifacts]_vars

C6_Witness ==
    /\ last.op = "train_all_models"
    /\ last.rows > 0
    /\ ~last.success["outcome"]
    /\ last.success["spread"]
    /\ last.success["total"]
    /\ last.ret

\* C7 as claimed: in a train_all_models call an artifact is written for a
\* model if and only if that model's train returned True.
C7_WrittenIffTrained ==
    last.op = "train_all_models" =>
        \A k \in Kinds : k \in last.written <=> last.success[k]

\* C7 as amended: an artifact is written only for a model whose train
\* returned True in the same call, it is the predictor just trained, and no
\* artifact ever holds a model that is not trained.
C7_WrittenOnlyIfTrained ==
    /\ last.op = "train_all_models" =>
          \A k \in last.written :
              last.success[k] /\ artifacts[ArtifactName(k)] = mgr[k]
    /\ \A a \in ArtifactNames : artifacts[a] # None => Ready(artifacts[a])

C7_Witness ==
    /\ last.op = "train_all_models"
    /\ "spread" \in last.written
    /\ ~last.success["outcome"]
    /\ artifacts["game_outcome_model"] = None
    /\ artifacts["spread_model"] # None

\* the last predict returned what the fitted estimator answered
Answered ==
    /\ Ready(last.before)
    /\ feature_cols(last.kind) \cap last.cols = last.before.scaler.cols

RowsOf(k) == {r \in predictions : Key(r) = k}

\* C9: whatever store_predictions calls ran and however they overlapped, the
\* store holds at most one row per (game id, model name, prediction kind),
\* and the row's predicted_value and confidence are those of the call that
\* committed last for the key.
C9_OneRowPerKeyLatestValue ==
    /\ KeysOf(predictions) \subseteq AllKeys
    /\ \A k \in AllKeys :
          /\ Cardinality(RowsOf(k)) <= 1
          /\ committed[k] = None => RowsOf(k) = {}
          /\ committed[k] # None =>
                \E r \in RowsOf(k) :
                    /\ r.predicted_value = Get(committed[k]).predicted_value
                    /\ r.confidence = Get(committed[k]).confidence

C9_Witness ==
    \E k \in AllKeys :
        /\ committed[k] # None
        /\ Get(committed[k]).replaced
        /\ Cardinality(RowsOf(k)) = 1
        /\ \E sid \in SessionIds :
              /\ sessions[sid] # None
              /\ \E w \in sessions[sid].written :
                    /\ Key(w) = k
                    /\ w.predicted_value # Get(committed[k]).predicted_value

\* C10: no step changes the actual_value or the is_correct of a row whose
\* actual_value is populated, whatever the games table says by then, and a
\* second run of update_prediction_accuracy over the store and the games a
\* first run left changes nothing.
C10_ReconciliationWriteOnce ==
    [][/\ \A r \in predictions :
             r.actual_value # None =>
                \E q \in predictions' :
                    /\ Key(q) = Key(r)
                    /\ q.actual_value = r.actual_value
                    /\ q.is_correct = r.is_correct
       /\ update_prediction_accuracy(
              update_prediction_accuracy(predictions', games'), games')
            = update_prediction_accuracy(predictions', games')]_vars

C10_Witness ==
    /\ last.op = "update_prediction_accuracy"
    /\ last.step = "spread"
    /\ \E r \in predictions :
          /\ r.prediction_type = "spread"
          /\ r.actual_value # None
          /\ Qualifies(games[r.game_id])
          /\ Get(r.actual_value) # ActualValue(games[r.game_id], "spread")
    /\ \E sid \in SessionIds :
          /\ sessions[sid] # None
          /\ sessions[sid].op = "update_prediction_accuracy"
          /\ sessions[sid].pc = 3
          /\ \A w \in sessions[sid].written : w.prediction_type # "spread"
    /\ \A sid \in SessionIds :
          sessions[sid] # None => sessions[sid].op = "update_prediction_accuracy"

\* every row of the store, committed or written by an open transaction
AllRows == predictions \cup UNION {sessions[sid].written :
                                     sid \in {t \in SessionIds : sessions[t] # None}}

\* the rows an UPDATE statement of the given prediction_type can have written
ReconciledBy(type, old, new) ==
    {r \in new \ old : r.prediction_type = type /\ r.actual_value # None}

\* C11: an UPDATE statement of update_prediction_accuracy writes only rows
\* of completed games with both scores; it sets a spread row's actual_value
\* to home_score - away_score and is_correct to |predicted - actual| <= 3,
\* and a total row's actual_value to home_score + away_score and is_correct
\* to |predicted - actual| <= 5, both bounds inclusive (predicted values are
\* in tenths of a point).
C11_SpreadTotalReconciled ==
    [][(last'.op = "update_prediction_accuracy" /\ last'.step \in {"spread", "total"}) =>
          \A r \in ReconciledBy(last'.step, AllRows, AllRows') :
             LET g == games[r.game_id]
                 actual == IF r.prediction_type = "spread"
                           THEN Get(g.home_score) - Get(g.away_score)
                           ELSE Get(g.home_score) + Get(g.away_score)
                 band == IF r.prediction_type = "spread" THEN 30 ELSE 50
             IN  /\ g.status = "completed"
                 /\ g.home_score # None /\ g.away_score # None
                 /\ r.actual_value = Some(actual)
                 /\ r.is_correct =
                       Some(r.predicted_value - 10 * actual <= band
                            /\ 10 * actual - r.predicted_value <= band)]_vars

\* a spread prediction of 7 and one of 2 reconciled against scores 100-90
C11_Witness ==
    /\ last.op = "update_prediction_accuracy"
    /\ last.step = "spread"
    /\ games[1].home_score = Some(100) /\ games[1].away_score = Some(90)
    /\ \E r \in AllRows :
          /\ r.prediction_type = "spread" /\ r.game_id = 1
          /\ r.predicted_value \in {70, 20}
          /\ r.actual_value = Some(10)
          /\ r.is_correct = Some(r.predicted_value = 70)

\* C12: the winner statement of update_prediction_accuracy sets actual_value
\* to 1 when home_score > away_score and to 0 otherwise, a tie included, and
\* is_correct to whether the predicted side (home when predicted_value > 0.5,
\* away otherwise) is the side actual_value names.
C12_WinnerReconciled ==
    [][(last'.op = "update_prediction_accuracy" /\ last'.step = "winner") =>
          \A r \in ReconciledBy("winner", AllRows, AllRows') :
             LET g == games[r.game_id]
                 home_won == Get(g.home_score) > Get(g.away_score)
                 home_predicted == r.predicted_value > 500
             IN  /\ g.status = "completed"
                 /\ g.home_score # None /\ g.away_score # None
                 /\ r.actual_value = Some(IF home_won THEN 1 ELSE 0)
                 /\ r.is_correct = Some(home_predicted <=> home_won)]_vars

\* a winner prediction of 0.5 reconciled against a tied score
C12_Witness ==
    /\ last.op = "update_prediction_accuracy"
    /\ last.step = "winner"
    /\ games[1].home_score = games[1].away_score
    /\ games[1].home_score # None
    /\ \E r \in AllRows :
          /\ r.prediction_type = "winner" /\ r.game_id = 1
          /\ r.predicted_value = 500
          /\ r.actual_value = Some(0)
          /\ r.is_correct = Some(TRUE)

(***************************************************************************)
(* Properties of the feature pipeline.                                     *)
(***************************************************************************)
\* C13: two create_game_features calls for the same home and away team on
\* the same games table, no query failing, return the same feature vector.
C13_FeaturesDeterministic ==
    [][(/\ last.op = "create_game_features"
        /\ last'.op = "create_game_features"
        /\ last'.home = last.home
        /\ last'.away = last.away
        /\ last.db_ok = <<TRUE, TRUE, TRUE>>
        /\ last'.db_ok = <<TRUE, TRUE, TRUE>>
        /\ games' = games) => last'.ret = last.ret]_vars

\* C14: get_team_stats always returns the eight statistics, and for a team
\* without a completed game with both scores exactly the default profile:
\* 110.0 scored and allowed, differential 0.0, every win fraction and the
\* recent form 0.5, consistency 0.5.
C14_DefaultTeamStats ==
    last.op = "get_team_stats" =>
        /\ DOMAIN last.ret =
              {"avg_points_scored", "avg_points_allowed", "avg_point_differential",
               "win_percentage", "home_win_pct", "away_win_pct", "recent_form",
               "scoring_consistency"}
        /\ (\A g \in DOMAIN games :
               (games[g].home_team_id = last.team_id \/ games[g].away_team_id = last.team_id)
                  => (\/ games[g].status # "completed"
                      \/ games[g].home_score = None
                      \/ games[g].away_score = None))
             => last.ret = [avg_points_scored |-> 110000, avg_points_allowed |-> 110000,
                            avg_point_differential |-> 0, win_percentage |-> 500,
                            home_win_pct |-> 500, away_win_pct |-> 500,
                            recent_form |-> 500, scoring_consistency |-> 500]

\* a team whose only games lack a score or are not completed, the store answering
C14_Witness ==
    /\ last.op = "get_team_stats"
    /\ last.db_ok
    /\ last.team_id = "D"
    /\ \E g \in DOMAIN games : games[g].home_team_id = "D"
    /\ last.ret.avg_points_scored = 110000
    /\ last.ret.win_percentage = 500

\* C15: for two teams without a completed game with both scores between
\* them, in either order, get_head_to_head_stats returns exactly
\* h2h_win_pct 0.5, avg_total_points 220.0, avg_margin 0.0.
C15_DefaultHeadToHead ==
    last.op = "get_head_to_head_stats" =>
        ((\A g \in DOMAIN games :
             {games[g].home_team_id, games[g].away_team_id} = {last.team1_id, last.team2_id}
                => (\/ games[g].status # "completed"
                    \/ games[g].home_score = None
                    \/ games[g].away_score = None))
           => last.ret = [h2h_win_pct |-> 500, avg_total_points |-> 220000,
                          avg_margin |-> 0])

\* two teams whose only meetings lack a score or are not completed
C15_Witness ==
    /\ last.op = "get_head_to_head_stats"
    /\ last.db_ok
    /\ {last.team1_id, last.team2_id} = {"A", "B"}
    /\ \E g \in DOMAIN games :
          /\ {games[g].home_team_id, games[g].away_team_id} = {"A", "B"}
          /\ games[g].status = "completed"
    /\ last.ret.h2h_win_pct = 500
    /\ last.ret.avg_total_points = 220000

\* the games prepare_training_data is to return for the range of the last call
Eligible ==
    {g \in DOMAIN games :
        /\ games[g].status = "completed"
        /\ games[g].home_score # None
        /\ games[g].away_score # None
        /\ (last.start_date # None => games[g].game_date >= Get(last.start_date))
        /\ (last.end_date # None => games[g].game_date <= Get(last.end_date))}

\* C16: when the store answers, prepare_training_data returns one row for
\* every completed game with both scores within the inclusive date range and
\* no other row, by ascending game_date, each with total_points, point_spread
\* and home_win derived from the game's scores; without such a game it
\* returns the empty corpus.
C16_TrainingRows ==
    (last.op = "prepare_training_data" /\ last.db_ok) =>
        LET rows == last.ret.rows
        IN  /\ Len(rows) = Cardinality(Eligible)
            /\ {rows[i].game_id : i \in 1..Len(rows)} = Eligible
            /\ \A i \in 1..Len(rows) : \A j \in i..Len(rows) :
                  rows[i].game_date <= rows[j].game_date
            /\ \A i \in 1..Len(rows) :
                  LET g == games[rows[i].game_id]
                  IN  /\ rows[i].game_date = g.game_date
                      /\ rows[i].total_points = Get(g.home_score) + Get(g.away_score)
                      /\ rows[i].point_spread = Get(g.home_score) - Get(g.away_score)
                      /\ rows[i].home_win = 1 <=> Get(g.home_score) > Get(g.away_score)
                      /\ rows[i].home_win \in {0, 1}
            /\ Eligible = {} => last.ret = EmptyFrame

\* a range whose two bounds each admit a game played on the bound, over a
\* table with games out of the range and games that do not qualify
C16_Witness ==
    /\ last.op = "prepare_training_data"
    /\ last.db_ok
    /\ last.start_date = Some(2) /\ last.end_date = Some(3)
    /\ Len(last.ret.rows) = 2
    /\ last.ret.rows[1].game_date = 2
    /\ last.ret.rows[2].game_date = 3
    /\ \E g \in DOMAIN games : games[g].game_date = 2 /\ games[g].status # "completed"
    /\ \E g \in DOMAIN games : Qualifies(games[g]) /\ games[g].game_date = 1

(***************************************************************************)
(* Properties of the trained pipeline.                                     *)
(***************************************************************************)
\* every game of the table is a completed meeting of A and B that A won by
\* exactly 10 points, at either venue
Dominant ==
    \A g \in DOMAIN games :
        /\ games[g].status = "completed"
        /\ games[g].home_score # None /\ games[g].away_score # None
        /\ \/ /\ games[g].home_team_id = "A" /\ games[g].away_team_id = "B"
              /\ Get(games[g].home_score) - Get(games[g].away_score) = 10
           \/ /\ games[g].home_team_id = "B" /\ games[g].away_team_id = "A"
              /\ Get(games[g].away_score) - Get(games[g].home_score) = 10

\* C17: when A beat B by exactly 10 in every meeting of the history and
\* train_all_models has trained a model on it, predict_game with A at home
\* returns home_win_probability above 0.5 and predicted_spread above 0, also
\* when every training label is a home win.
C17_DominantHomeTeamFavoured ==
    (last.op = "predict_game" /\ Dominant /\ last.ready # {}) =>
        /\ last.value.home_win_probability > 500
        /\ last.value.predicted_spread > 0

\* self.model.fit was reached by the last train call: the corpus is valid,
\* a declared feature column is present and the train partition is not empty
Fitted ==
    /\ ~InvalidCorpus
    /\ feature_cols(last.kind) \cap last.cols # {}
    /\ last.rows - NTest(last.rows) > 0

\* C20: a train call that fitted its estimator returns True and leaves the
\* model trained, whatever happens while the metrics are computed.
C20_MetricsNeverGate ==
    (last.op = "train" /\ Fitted) =>
        /\ last.ret = TRUE
        /\ mgr[last.kind].is_trained

(***************************************************************************)
(* Properties of the batch run.                                            *)
(***************************************************************************)
\* the scheduled games of the next days_ahead days
Due == UpcomingGames(games, Today, Today + DaysAhead)

\* the loop has gone through a prefix of the query's rows and the rest is
\* still to come; the rows are the due games, each once, by ascending date;
\* no step lets an exception out
C18_Progress ==
    /\ batch # None =>
          /\ batch.processed \o batch.queue = batch.order
          /\ {batch.order[i] : i \in 1..Len(batch.order)} = Due
          /\ Len(batch.order) = Cardinality(Due)
          /\ \A i \in 1..Len(batch.order) : \A j \in i..Len(batch.order) :
                games[batch.order[i]].game_date <= games[batch.order[j]].game_date
    /\ last.op = "generate_predictions_for_upcoming_games" =>
          /\ ~last.raised
          /\ last.step = "done" => last.processed = last.order

\* C18: generate_predictions_for_upcoming_games goes through every upcoming
\* scheduled game exactly once in date order, a game whose prediction or
\* store failed not keeping it from the later games, and the call always
\* returns without raising.
C18_EveryGameOnceAndTerminates ==
    /\ []C18_Progress
    /\ (batch # None) ~> (batch = None)

\* a finished run in which the store of one game failed and a later game's
\* rows were committed
C18_Witness ==
    /\ last.op = "generate_predictions_for_upcoming_games"
    /\ last.step = "done"
    /\ Len(last.processed) = 3
    /\ \E i \in 1..Len(last.processed) : \E j \in (i + 1)..Len(last.processed) :
          /\ last.processed[i] \notin last.stored
          /\ last.processed[j] \in last.stored
          /\ \E r \in predictions : r.game_id = last.processed[j]
          /\ ~\E r \in predictions : r.game_id = last.processed[i]

\* C19: the count a finished run logs is the number of games whose rows the
\* run committed.
C19_CountIsCommitted ==
    (last.op = "generate_predictions_for_upcoming_games" /\ last.step = "done") =>
        last.predictions_made = Cardinality(last.stored)

(***************************************************************************)
(* Properties of the feature projection and of failed training.            *)
(***************************************************************************)
\* C21: a trained predictor asked with a feature vector that lacks a
\* declared feature it was trained with answers from its estimator, the
\* absent feature counting as 0, and not with the neutral fallback.
C21_AbsentFeaturesAsZero ==
    (last.op = "predict" /\ Ready(last.before)) =>
        last.ret = PredictedDict(last.kind, last.before, last.out)

\* C23: a train call that returns False leaves is_trained, the scaler and
\* the estimator as they were before the call.
C23_FailedTrainChangesNothing ==
    (last.op = "train" /\ last.ret = FALSE) =>
        /\ mgr[last.kind].is_trained = last.before.is_trained
        /\ mgr[last.kind].scaler = last.before.scaler
        /\ mgr[last.kind].model = last.before.model

\* C22: the feature vector of a training row is computed from games played
\* before the row's game: no game its queries returned is dated after the
\* row's game_date, and none is the row's own game.
C22_NoLaterGameInFeatures ==
    (last.op = "prepare_training_data" /\ last.row > 0) =>
        \A g \in last.read :
            /\ games[g].game_date <= last.ret.rows[last.row].game_date
            /\ g # last.ret.rows[last.row].game_id

\* the games of a query result in which neither team outscored the other
TiedIn(df) ==
    {i \in 1..Len(df) : Get(games[df[i]].home_score) = Get(games[df[i]].away_score)}

\* C29: get_head_to_head_stats(a, b) and get_head_to_head_stats(b, a) on the
\* same games table use the same games, return the same avg_total_points and
\* opposite avg_margin, and their h2h_win_pct add up to 1 less the fraction
\* of tied games (each figure to the last thousandth, which is rounded down).
C29_HeadToHeadMirrored ==
    [][(/\ last.op = "get_head_to_head_stats"
        /\ last'.op = "get_head_to_head_stats"
        /\ last'.team1_id = last.team2_id
        /\ last'.team2_id = last.team1_id
        /\ last.db_ok /\ last'.db_ok
        /\ last.df # <<>>
        /\ games' = games)
       => /\ Ids(last'.df) = Ids(last.df)
          /\ last'.ret.avg_total_points = last.ret.avg_total_points
          /\ last'.ret.avg_margin + last.ret.avg_margin \in {-1, 0}
          /\ last'.ret.h2h_win_pct + last.ret.h2h_win_pct
                + ((1000 * Cardinality(TiedIn(last.df))) \div Len(last.df))
                   \in 998..1000]_vars

\* the team of the last get_team_stats call outscored its opponent in game g
TeamWon(g) ==
    \/ /\ games[g].home_team_id = last.team_id
       /\ Get(games[g].home_score) > Get(games[g].away_score)
    \/ /\ games[g].away_team_id = last.team_id
       /\ Get(games[g].away_score) > Get(games[g].home_score)

\* C30: every answer of get_team_stats has its four win fractions within
\* [0, 1], scoring_consistency within (0, 1] and avg_point_differential equal
\* to avg_points_scored - avg_points_allowed; computed from a query result,
\* win_percentage is the wins over the games selected, at most the window,
\* a venue split is 0.5 when no selected game was played at that venue, and
\* recent_form is the wins over the 5 most recent selected games.
C30_TeamStatsBounded ==
    last.op = "get_team_stats" =>
        /\ \A f \in {"win_percentage", "home_win_pct", "away_win_pct", "recent_form"} :
              last.ret[f] >= 0 /\ last.ret[f] <= 1000
        /\ last.ret.scoring_consistency > 0
        /\ last.ret.scoring_consistency <= 1000
        /\ last.ret.avg_point_differential =
              last.ret.avg_points_scored - last.ret.avg_points_allowed
        /\ (last.db_ok /\ last.df # <<>>) =>
              LET n == Len(last.df)
                  recent == 1..Min(5, n)
              IN  /\ n <= 10
                  /\ last.ret.win_percentage =
                        (1000 * Cardinality({i \in 1..n : TeamWon(last.df[i])})) \div n
                  /\ (\A i \in 1..n : games[last.df[i]].home_team_id # last.team_id)
                        => last.ret.home_win_pct = 500
                  /\ (\A i \in 1..n : games[last.df[i]].away_team_id # last.team_id)
                        => last.ret.away_win_pct = 500
                  /\ last.ret.recent_form =
                        (1000 * Cardinality({i \in recent : TeamWon(last.df[i])}))
                           \div Cardinality(recent)

\* a team that played six games, all away, and won only the oldest
C30_Witness ==
    /\ last.op = "get_team_stats"
    /\ last.db_ok
    /\ last.team_id = "B"
    /\ Len(last.df) = 6
    /\ last.ret.win_percentage = 166
    /\ last.ret.recent_form = 0
    /\ last.ret.home_win_pct = 500
    /\ last.ret.away_win_pct = 166

(***************************************************************************)
(* Further properties of the prediction store.                             *)
(***************************************************************************)
\* the tolerance rule applied to a row's own predicted_value and actual_value
RuleHolds(r) ==
    CASE r.prediction_type = "winner" ->
           \/ r.predicted_value > 500 /\ Get(r.actual_value) = 1
           \/ r.predicted_value <= 500 /\ Get(r.actual_value) = 0
      [] r.prediction_type = "spread" ->
           Abs(r.predicted_value - 10 * Get(r.actual_value)) <= 30
      [] r.prediction_type = "total" ->
           Abs(r.predicted_value - 10 * Get(r.actual_value)) <= 50

\* C24: every committed prediction row with an actual_value has the
\* is_correct flag the tolerance rule gives for its current predicted_value
\* and its actual_value.
C24_CorrectnessAgreesWithRow ==
    \A r \in predictions :
        r.actual_value # None => r.is_correct = Some(RuleHolds(r))

\* the committed rows of one game and model_name
RowsOfGame(game_id, model_name) ==
    {r \in predictions : r.game_id = game_id /\ r.model_name = model_name}

\* C26: the committed rows of a game are none or all three, one of each
\* prediction_type, holding the values of one store_predictions call, in
\* every interleaving of the calls and whichever of them fail.
C26_StoreAllOrNothing ==
    \A k \in AllKeys :
        LET rows == RowsOfGame(k[1], k[2])
        IN  \/ rows = {}
            \/ /\ Cardinality(rows) = 3
               /\ {r.prediction_type : r \in rows} = {"winner", "spread", "total"}
               /\ \E b \in {c \in Bundles : "model_name" \in DOMAIN c} :
                     \A r \in rows :
                        /\ r.predicted_value = PredictedValue(b, r.prediction_type)
                        /\ r.confidence = ConfidenceOf(b, r.prediction_type)

\* a call that has written two of its three rows, with values other than
\* the committed ones, while the committed rows are those of an earlier call
C26_Witness ==
    \E sid \in SessionIds :
        /\ sessions[sid] # None
        /\ sessions[sid].op = "store_predictions"
        /\ Cardinality(sessions[sid].written) = 2
        /\ Cardinality(predictions) = 3
        /\ \A w \in sessions[sid].written : \E r \in predictions :
              Key(r) = Key(w) /\ r.predicted_value # w.predicted_value

\* no row of a game that is not completed or lacks a score has an
\* actual_value or an is_correct flag
UnfinishedUntouched ==
    \A r \in AllRows :
        (\/ games[r.game_id].status # "completed"
         \/ games[r.game_id].home_score = None
         \/ games[r.game_id].away_score = None)
           => r.actual_value = None /\ r.is_correct = None

\* C27: predictions of a game that is not completed or lacks a score keep
\* actual_value and is_correct NULL, and a statement of
\* update_prediction_accuracy changes no predicted_value and no confidence.
C27_OnlyFinishedGamesReconciled ==
    /\ []UnfinishedUntouched
    /\ [][last'.op = "update_prediction_accuracy" =>
            \A n \in AllRows' : \E r \in AllRows :
               /\ Key(r) = Key(n)
               /\ r.predicted_value = n.predicted_value
               /\ r.confidence = n.confidence]_vars

\* update_prediction_accuracy committed over the stored predictions of a game
\* recorded as completed with a score missing
C27_Witness ==
    /\ last.op = "update_prediction_accuracy"
    /\ last.step = "total"
    /\ \E g \in DOMAIN games :
          /\ games[g].status = "completed"
          /\ games[g].away_score = None
          /\ Cardinality({r \in predictions : r.game_id = g}) = 3
    /\ \A r \in predictions : r.actual_value = None

(***************************************************************************)
(* Further properties of the batch run and of persistence.                 *)
(***************************************************************************)
\* C25: after a run during which the store answered every statement, every
\* scheduled game of the date window has exactly three prediction rows, one
\* of each prediction_type, whether or not the models are ready.
C25_EveryDueGameHasThreeRows ==
    (/\ last.op = "generate_predictions_for_upcoming_games"
     /\ last.step = "done"
     /\ last.db_ok) =>
        \A g \in Due :
            /\ Cardinality({r \in predictions : r.game_id = g}) = 3
            /\ {r.prediction_type : r \in {q \in predictions : q.game_id = g}}
                  = {"winner", "spread", "total"}

=============================================================================
